---- MODULE Spec2Model ----
(***************************************************************************)
(* Modbus ASCII transport, LRC primitives and server dispatch of           *)
(* d21d3q/modbus.  Bytes are the integers 0..255, characters are their     *)
(* ASCII codes, byte slices are sequences.                                 *)
(***************************************************************************)
EXTENDS Integers, Sequences, FiniteSets, TLC

VARIABLES
    lrcIn,      \* LRC unit: the buffer handed to computeLRC / verifyLRC
    lrcArg,     \* LRC unit: the lrc argument of the last verifyLRC call
    lrcOut,     \* LRC unit: result of the last computeLRC call (-1: not called)
    lrcOk,      \* LRC unit: result of the last verifyLRC call ("none": not called)
    pc,         \* ASCII transport: position of the flow that drives the link
    peerPdu,    \* the PDU the peer handed to assembleASCIIFrame (NoPdu: none)
    frame,      \* the frame assembleASCIIFrame returned for peerPdu
    wire,       \* bytes written to the link and not yet read by this side
    rxbuf,      \* readASCIIFrame: rxbuf
    colon,      \* readASCIIFrame: colon
    res,        \* readASCIIFrame: returned PDU (NoPdu: nil)
    err,        \* readASCIIFrame: returned error ("nil": none)
    skipped,    \* history: the bytes readASCIIFrame read before the first ':'
    closed,     \* the link has been closed
    coils,      \* harnessHandler.coils
    holding,    \* harnessHandler.holding
    spc,        \* server link: position of the request/response exchange
    creq,       \* the request PDU the client executes
    c2s,        \* frame on the link from client to server
    s2c,        \* frame on the link from server to client
    cres,       \* the PDU the client transport returned (NoPdu: nil)
    cerr,       \* the error the client transport returned
    before,     \* history: the handler's data when the request was sent, and
                \* whether the exchange before it ended with an exception PDU
    written,    \* history: per address, the value of the last write answered
                \* successfully
    now,        \* the clock (time.Now()), in ticks
    deadline,   \* the deadline armed on the link
    lastActivity, \* asciiTransport.lastActivity
    ts,         \* ExecuteRequest: ts
    req,        \* ExecuteRequest: the request PDU
    peerReq,    \* the request the peer received and has not answered (NoPdu: none)
    writeAt,    \* history: the time link.Write of the request frame started
    laAtWrite,  \* history: lastActivity when that write started
    tracked     \* history: a read request the client repeats, with the first
                \* and the latest response frame the server wrote for it

lrcVars == <<lrcIn, lrcArg, lrcOut, lrcOk>>

linkVars == <<pc, peerPdu, frame, wire, rxbuf, colon, res, err, skipped, closed>>

srvVars == <<coils, holding, spc, creq, c2s, s2c, cres, cerr, before, written, tracked>>

execVars == <<now, deadline, lastActivity, ts, req, peerReq, writeAt, laAtWrite>>

vars == <<lrcIn, lrcArg, lrcOut, lrcOk, pc, peerPdu, frame, wire, rxbuf, colon, res, err,
          skipped, closed,
          coils, holding, spc, creq, c2s, s2c, cres, cerr, before, written,
          now, deadline, lastActivity, ts, req, peerReq, writeAt, laAtWrite, tracked>>

Byte == 0 .. 255

\* All sequences over S of length at most n.
SeqsUpTo(S, n) == UNION { [1 .. k -> S] : k \in 0 .. n }

(***************************************************************************)
(* lrc.go                                                                  *)
(***************************************************************************)

\* The additions of the loop of computeLRC over buf[lo..hi]: `sum` is a byte,
\* so every += wraps modulo 256.  The additions are grouped as a balanced
\* tree (byte addition is associative), which keeps the evaluation shallow on
\* frames of maximum length.
RECURSIVE lrcSumRange(_, _, _)
lrcSumRange(buf, lo, hi) ==
    IF lo > hi THEN 0
    ELSE IF lo = hi THEN buf[lo] % 256
    ELSE LET mid == (lo + hi) \div 2
         IN  (lrcSumRange(buf, lo, mid) + lrcSumRange(buf, mid + 1, hi)) % 256

\* for _, b := range buf { sum += b }
lrcSum(buf) == lrcSumRange(buf, 1, Len(buf))

\* Mutant: one's complement only (the "+ 1" forgotten).
computeLRC_NoIncrement(buf) == 255 - lrcSum(buf)

\* lrc = byte(^sum + 1): ^sum on a byte is 255 - sum, the result wraps to a byte.
computeLRC(buf) == ((255 - lrcSum(buf)) + 1) % 256

\* Mutant: compares the raw sum instead of the LRC.
verifyLRC_RawSum(buf, lrc) == lrcSum(buf) = lrc

verifyLRC(buf, lrc) == computeLRC(buf) = lrc

(***************************************************************************)
(* ASCII framing (asciiTransport.assembleASCIIFrame, toHexUpper,           *)
(* readASCIIFrame and encoding/hex as readASCIIFrame uses it).             *)
(***************************************************************************)

maxASCIIFrameLength == 513

Colon == 58
CR == 13
LF == 10

ErrNone == "nil"
ErrRequestTimedOut == "ErrRequestTimedOut"
ErrProtocolError == "ErrProtocolError"
ErrShortFrame == "ErrShortFrame"
ErrBadLRC == "ErrBadLRC"

\* A nil *pdu.
NoPdu == [unitId |-> -1, functionCode |-> -1, payload |-> <<>>]

Pdu(u, f, pl) == [unitId |-> u, functionCode |-> f, payload |-> pl]

\* const table = "0123456789ABCDEF"
hexTableUpper == <<48, 49, 50, 51, 52, 53, 54, 55, 56, 57, 65, 66, 67, 68, 69, 70>>

\* Mutant: a lower-case digit table.
toHexUpper_LowerTable(b) ==
    LET t == <<48, 49, 50, 51, 52, 53, 54, 55, 56, 57, 97, 98, 99, 100, 101, 102>>
    IN  <<t[(b \div 16) + 1], t[(b % 16) + 1]>>

\* hexPair = []byte{table[b>>4], table[b&0x0f]}
toHexUpper(b) == <<hexTableUpper[(b \div 16) + 1], hexTableUpper[(b % 16) + 1]>>

\* buf = unitId, functionCode, payload..., computeLRC(buf);
\* frame = ':' , toHexUpper of every byte of buf in order, '\r', '\n'.
assembleASCIIFrame(p) ==
    LET data == <<p.unitId, p.functionCode>> \o p.payload
        buf  == Append(data, computeLRC(data))
        n    == 1 + 2 * Len(buf) + 2
    IN  [i \in 1 .. n |->
            IF i = 1 THEN Colon
            ELSE IF i = n - 1 THEN CR
            ELSE IF i = n THEN LF
            ELSE toHexUpper(buf[i \div 2])[(i % 2) + 1]]

\* Mutant: upper-case digits A-F are not recognised.
fromHexChar_NoUpper(c) ==
    IF c >= 48 /\ c <= 57 THEN c - 48
    ELSE IF c >= 97 /\ c <= 102 THEN c - 97 + 10
    ELSE -1

\* encoding/hex fromHexChar: '0'-'9', 'a'-'f', 'A'-'F'; -1 stands for "not ok".
fromHexChar(c) ==
    IF c >= 48 /\ c <= 57 THEN c - 48
    ELSE IF c >= 97 /\ c <= 102 THEN c - 97 + 10
    ELSE IF c >= 65 /\ c <= 70 THEN c - 65 + 10
    ELSE -1

\* hex.Decode(raw, hexPayload) for an even-length source: ok is FALSE when some
\* character is no hex digit (InvalidByteError).
hexDecode(src) ==
    LET n == Len(src) \div 2
    IN  [ok  |-> \A i \in 1 .. 2 * n : fromHexChar(src[i]) # -1,
         raw |-> [i \in 1 .. n |->
                    16 * fromHexChar(src[2 * i - 1]) + fromHexChar(src[2 * i])]]

Failed(e) == [res |-> NoPdu, err |-> e]

\* Mutant: the LRC is not verified.
verifyFrame_NoLRCCheck(raw) ==
    Failed(ErrNone) @@ [res |-> Pdu(raw[1], raw[2], SubSeq(raw, 3, Len(raw) - 1))]

\* readASCIIFrame, lines 212-226: split data / lrc, verify, build the PDU.
verifyFrame(raw) ==
    LET data == SubSeq(raw, 1, Len(raw) - 1)
        lrc  == raw[Len(raw)]
    IN  IF ~verifyLRC(data, lrc) THEN Failed(ErrBadLRC)
        ELSE [res |-> Pdu(data[1], data[2], SubSeq(data, 3, Len(data))),
              err |-> ErrNone]

\* Mutant: the frame is not checked for a clean hex decode.
decodeFrame_NoHexCheck(buf) ==
    IF Len(buf) < 3 \/ buf[Len(buf) - 1] # CR THEN Failed(ErrProtocolError)
    ELSE LET hexPayload == SubSeq(buf, 2, Len(buf) - 2)
         IN  IF Len(hexPayload) < 6 THEN Failed(ErrShortFrame)
             ELSE IF Len(hexPayload) % 2 # 0 THEN Failed(ErrProtocolError)
             ELSE verifyFrame([i \in 1 .. Len(hexPayload) \div 2 |->
                                (16 * fromHexChar(hexPayload[2 * i - 1])
                                    + fromHexChar(hexPayload[2 * i])) % 256])

\* Mutant: a frame below 6 hex characters is reported as a protocol error.
decodeFrame_ShortIsProtocol(buf) ==
    IF Len(buf) < 3 \/ buf[Len(buf) - 1] # CR THEN Failed(ErrProtocolError)
    ELSE LET hexPayload == SubSeq(buf, 2, Len(buf) - 2)
         IN  IF Len(hexPayload) < 6 THEN Failed(ErrProtocolError)
             ELSE IF Len(hexPayload) % 2 # 0 THEN Failed(ErrProtocolError)
             ELSE LET d == hexDecode(hexPayload)
                  IN  IF ~d.ok THEN Failed(ErrProtocolError)
                      ELSE IF Len(d.raw) < 3 THEN Failed(ErrShortFrame)
                      ELSE verifyFrame(d.raw)

\* readASCIIFrame after the scanning loop (lines 179-226), on the accumulated
\* rxbuf: CR check, strip ':' and CRLF, short check, parity check, hex decode,
\* decoded-length check, LRC check.
decodeFrame(buf) ==
    IF Len(buf) < 3 \/ buf[Len(buf) - 1] # CR THEN Failed(ErrProtocolError)
    ELSE LET hexPayload == SubSeq(buf, 2, Len(buf) - 2)
         IN  IF Len(hexPayload) < 6 THEN Failed(ErrShortFrame)
             ELSE IF Len(hexPayload) % 2 # 0 THEN Failed(ErrProtocolError)
             ELSE LET d == hexDecode(hexPayload)
                  IN  IF ~d.ok THEN Failed(ErrProtocolError)
                      ELSE IF Len(d.raw) < 3 THEN Failed(ErrShortFrame)
                      ELSE verifyFrame(d.raw)

\* The transport and its link before any call.
LinkIdle ==
    /\ pc = "idle"
    /\ peerPdu = NoPdu
    /\ frame = <<>>
    /\ wire = <<>>
    /\ rxbuf = <<>>
    /\ colon = FALSE
    /\ res = NoPdu
    /\ err = ErrNone
    /\ skipped = <<>>
    /\ closed = FALSE

(***************************************************************************)
(* The data handler of the server harness (modbus_server_harness.go).      *)
(***************************************************************************)

\* The unit id the handler serves (unitId 9 in the server tests).
ServedUnitId == 9

ErrIllegalFunction == "ErrIllegalFunction"
ErrIllegalDataAddress == "ErrIllegalDataAddress"

\* newHarnessHandler: the four data areas.
initialCoils == <<TRUE, FALSE, TRUE, TRUE, FALSE, FALSE, TRUE, FALSE>>

initialDiscrete == <<FALSE, TRUE, TRUE, FALSE, TRUE, FALSE, FALSE, TRUE>>

initialHolding ==
    <<4369, 8738, 4660, 43981, 0, 32767, 32768>> \o [i \in 1 .. 130 |-> 4096 + (i - 1)]

initialInput == <<39321, 43690, 48059, 52428>>

\* No write has been answered yet.
NothingWritten == [coil |-> [a \in {} |-> 0], reg |-> [a \in {} |-> 0]]

\* No read request is followed.
NoTrack == [req |-> NoPdu, first |-> <<>>, last |-> <<>>, n |-> 0]

\* The server of one link, freshly started, and its client.
ServerIdle ==
    /\ coils = initialCoils
    /\ holding = initialHolding
    /\ spc = "idle"
    /\ creq = NoPdu
    /\ c2s = <<>>
    /\ s2c = <<>>
    /\ cres = NoPdu
    /\ cerr = ErrNone
    /\ before = [coils |-> initialCoils, holding |-> initialHolding,
                 prevException |-> FALSE]
    /\ written = NothingWritten
    /\ tracked = NoTrack

(***************************************************************************)
(* Timing of the transport (newASCIITransport).  Times are in ticks.       *)
(***************************************************************************)

\* at.t1: the time of one character on the wire.
T1 == 2

\* at.t35 below 19200 baud: (serialCharTime(speed) * 35) / 10.
T35 == (T1 * 35) \div 10

\* at.timeout
Timeout == 100

\* A new transport: lastActivity is the zero time, long before now.
ClockIdle ==
    /\ now = 0
    /\ deadline = 0
    /\ lastActivity = 0 - (T35 + 1)
    /\ ts = 0
    /\ req = NoPdu
    /\ peerReq = NoPdu
    /\ writeAt = 0
    /\ laAtWrite = 0 - (T35 + 1)

(***************************************************************************)
(* The LRC primitives called on bounded inputs.                            *)
(***************************************************************************)

MaxLRCLen == 4

LRCBytes == {0, 1, 128, 255}

\* The two vectors of TestComputeAndVerifyLRC.
LRCTestVectors == { <<1, 3, 0, 19, 0, 10>>, <<16, 17, 18>> }

LRCArgs == {0, 1, 33, 205, 223, 255}

InitLRC ==
    /\ lrcIn \in SeqsUpTo(LRCBytes, MaxLRCLen) \cup LRCTestVectors
    /\ lrcArg = 0
    /\ lrcOut = -1
    /\ lrcOk = "none"
    /\ LinkIdle
    /\ ServerIdle
    /\ ClockIdle

CallComputeLRC ==
    /\ lrcOut' = computeLRC(lrcIn)
    /\ UNCHANGED <<lrcIn, lrcArg, lrcOk>>
    /\ UNCHANGED <<linkVars, srvVars, execVars>>

CallVerifyLRC ==
    /\ \E x \in LRCArgs :
        /\ lrcArg' = x
        /\ lrcOk' = IF verifyLRC(lrcIn, x) THEN "true" ELSE "false"
    /\ UNCHANGED <<lrcIn, lrcOut>>
    /\ UNCHANGED <<linkVars, srvVars, execVars>>

NextLRC == CallComputeLRC \/ CallVerifyLRC

SpecLRC == InitLRC /\ [][NextLRC]_vars

(***************************************************************************)
(* readASCIIFrame driven on a link (as the transport tests drive it): the  *)
(* peer either writes the frame its own transport assembles for a PDU, or  *)
(* transmits raw characters one at a time.                                 *)
(***************************************************************************)

MaxPayloadLen == 2

MaxRawLen == 7

UnitIds == {0, 9, 51, 255}

FunctionCodes == {3, 17, 131}

PayloadBytes == {0, 34, 51, 255}

\* The longest payload whose frame still fits maxASCIIFrameLength.
MaxFramedPayload == (maxASCIIFrameLength - 3) \div 2 - 3

\* Short PDUs, the PDU of TestASCIITransportReadASCIIFrame, and two PDUs at
\* the frame size limit.
PduSample ==
    { Pdu(u, f, pl) : u \in UnitIds, f \in FunctionCodes,
                      pl \in SeqsUpTo(PayloadBytes, MaxPayloadLen) }
    \cup { Pdu(49, 3, <<4, 17, 34, 51>>) }
    \cup { Pdu(9, 3, [i \in 1 .. n |-> 34]) :
             n \in {MaxFramedPayload, MaxFramedPayload + 1} }

\* Characters of a raw frame body: '0', '1', 'f' and the non-hex 'G'.
RawChars == {48, 49, 102, 71}

\* What a raw peer transmits next: ':' first, then body characters, then
\* CR LF or a bare LF.
NextRaw ==
    IF ~colon THEN {Colon}
    ELSE IF rxbuf[Len(rxbuf)] = CR THEN {LF}
    ELSE {CR, LF} \cup (IF Len(rxbuf) - 1 < MaxRawLen THEN RawChars ELSE {})

\* The direct call of readASCIIFrame: rxbuf empty, colon false (lines 135-140).
CallReadFrame ==
    /\ pc = "idle"
    /\ pc' = "read"
    /\ rxbuf' = <<>>
    /\ colon' = FALSE
    /\ skipped' = <<>>
    /\ UNCHANGED closed
    /\ res' = NoPdu
    /\ err' = ErrNone
    /\ UNCHANGED <<peerPdu, frame, wire>>
    /\ UNCHANGED <<lrcVars, srvVars>>
    /\ deadline' = now + Timeout
    /\ UNCHANGED <<now, lastActivity, ts, req, peerReq, writeAt, laAtWrite>>

\* The peer builds the PDU it is about to send.
PeerMakePdu ==
    /\ pc = "read"
    /\ peerPdu = NoPdu
    /\ wire = <<>>
    /\ rxbuf = <<>>
    /\ \E p \in PduSample : peerPdu' = p
    /\ UNCHANGED <<pc, frame, wire, rxbuf, colon, res, err, skipped, closed>>
    /\ UNCHANGED <<lrcVars, srvVars>>
    /\ UNCHANGED execVars

\* The peer's transport assembles the frame and writes it to the link.
PeerWriteFrame ==
    /\ pc = "read"
    /\ peerPdu # NoPdu
    /\ frame = <<>>
    /\ frame' = assembleASCIIFrame(peerPdu)
    /\ wire' = wire \o assembleASCIIFrame(peerPdu)
    /\ UNCHANGED <<pc, peerPdu, rxbuf, colon, res, err, skipped, closed>>
    /\ UNCHANGED <<lrcVars, srvVars>>
    /\ UNCHANGED execVars

\* The frames the transport tests write to the pipe:
\* ":31030411223362\r\n", ":31030411223300\r\n" and ":33\r\n".
TestFrames ==
    { <<58, 51, 49, 48, 51, 48, 52, 49, 49, 50, 50, 51, 51, 54, 50, 13, 10>>,
      <<58, 51, 49, 48, 51, 48, 52, 49, 49, 50, 50, 51, 51, 48, 48, 13, 10>>,
      <<58, 51, 51, 13, 10>> }

\* The test's goroutine writes a literal frame to the link.
PeerWriteTestFrame ==
    /\ pc = "read"
    /\ peerPdu = NoPdu
    /\ wire = <<>>
    /\ rxbuf = <<>>
    /\ \E f \in TestFrames : wire' = f
    /\ UNCHANGED <<pc, peerPdu, frame, rxbuf, colon, res, err, skipped, closed>>
    /\ UNCHANGED <<lrcVars, srvVars>>
    /\ UNCHANGED execVars

\* Mutant: bytes before the ':' are not skipped but accumulated.
scanStep_KeepsNoise(buf, col, b) ==
    IF Len(buf) + 1 > maxASCIIFrameLength
    THEN [rxbuf |-> Append(buf, b), colon |-> TRUE, done |-> TRUE,
          res |-> NoPdu, err |-> ErrProtocolError]
    ELSE IF b = LF
    THEN [rxbuf |-> Append(buf, b), colon |-> TRUE, done |-> TRUE,
          res |-> decodeFrame(Append(buf, b)).res,
          err |-> decodeFrame(Append(buf, b)).err]
    ELSE [rxbuf |-> Append(buf, b), colon |-> TRUE, done |-> FALSE,
          res |-> NoPdu, err |-> ErrNone]

\* Mutant: the frame is rejected when it reaches the maximum length.
scanStep_LimitAtMax(buf, col, b) ==
    IF ~col /\ b # Colon
    THEN [rxbuf |-> buf, colon |-> col, done |-> FALSE,
          res |-> NoPdu, err |-> ErrNone]
    ELSE IF Len(buf) + 1 >= maxASCIIFrameLength
    THEN [rxbuf |-> Append(buf, b), colon |-> TRUE, done |-> TRUE,
          res |-> NoPdu, err |-> ErrProtocolError]
    ELSE IF b = LF
    THEN [rxbuf |-> Append(buf, b), colon |-> TRUE, done |-> TRUE,
          res |-> decodeFrame(Append(buf, b)).res,
          err |-> decodeFrame(Append(buf, b)).err]
    ELSE [rxbuf |-> Append(buf, b), colon |-> TRUE, done |-> FALSE,
          res |-> NoPdu, err |-> ErrNone]

\* Mutant: a ':' inside a frame starts the frame anew.
scanStep_RestartsOnColon(buf, col, b) ==
    IF ~col /\ b # Colon
    THEN [rxbuf |-> buf, colon |-> col, done |-> FALSE,
          res |-> NoPdu, err |-> ErrNone]
    ELSE IF b = Colon
    THEN [rxbuf |-> <<Colon>>, colon |-> TRUE, done |-> FALSE,
          res |-> NoPdu, err |-> ErrNone]
    ELSE IF Len(buf) + 1 > maxASCIIFrameLength
    THEN [rxbuf |-> Append(buf, b), colon |-> TRUE, done |-> TRUE,
          res |-> NoPdu, err |-> ErrProtocolError]
    ELSE IF b = LF
    THEN [rxbuf |-> Append(buf, b), colon |-> TRUE, done |-> TRUE,
          res |-> decodeFrame(Append(buf, b)).res,
          err |-> decodeFrame(Append(buf, b)).err]
    ELSE [rxbuf |-> Append(buf, b), colon |-> TRUE, done |-> FALSE,
          res |-> NoPdu, err |-> ErrNone]

\* One iteration of the loop of readASCIIFrame (lines 153-176) on the byte b
\* that link.Read returned, followed, when the loop breaks on '\n', by the
\* decoding of lines 179-226.  done tells that the function returns.
scanStep(buf, col, b) ==
    IF ~col /\ b # Colon
    THEN [rxbuf |-> buf, colon |-> col, done |-> FALSE,
          res |-> NoPdu, err |-> ErrNone]
    ELSE IF Len(buf) + 1 > maxASCIIFrameLength
    THEN [rxbuf |-> Append(buf, b), colon |-> TRUE, done |-> TRUE,
          res |-> NoPdu, err |-> ErrProtocolError]
    ELSE IF b = LF
    THEN [rxbuf |-> Append(buf, b), colon |-> TRUE, done |-> TRUE,
          res |-> decodeFrame(Append(buf, b)).res,
          err |-> decodeFrame(Append(buf, b)).err]
    ELSE [rxbuf |-> Append(buf, b), colon |-> TRUE, done |-> FALSE,
          res |-> NoPdu, err |-> ErrNone]

\* The loop iteration applied to the locals of the running readASCIIFrame.
ScanByte(b) ==
    LET r == scanStep(rxbuf, colon, b)
    IN  /\ rxbuf' = r.rxbuf
        /\ colon' = r.colon
        /\ skipped' = IF r.colon THEN skipped ELSE Append(skipped, b)
        /\ IF r.done
           THEN /\ res' = r.res
                /\ err' = r.err
                /\ pc' = "returned"
           ELSE UNCHANGED <<pc, res, err>>

\* link.Read returns the next pending byte.
ReadWire ==
    /\ pc = "read"
    /\ wire # <<>>
    /\ ~closed
    /\ ScanByte(Head(wire))
    /\ wire' = Tail(wire)
    /\ UNCHANGED <<peerPdu, frame, closed>>
    /\ UNCHANGED <<lrcVars, srvVars>>
    /\ UNCHANGED execVars

\* link.Read returns a character the raw peer transmits at that moment.
ReadRaw ==
    /\ pc = "read"
    /\ wire = <<>>
    /\ peerPdu = NoPdu
    /\ \E b \in NextRaw : ScanByte(b)
    /\ UNCHANGED <<peerPdu, frame, wire, closed>>
    /\ UNCHANGED <<lrcVars, srvVars>>
    /\ UNCHANGED execVars

\* Mutant: a read that timed out is tried again.
onReadError_RetriesTimeout(e) ==
    IF e = "os.ErrDeadlineExceeded"
    THEN [done |-> FALSE, err |-> ErrNone]
    ELSE [done |-> TRUE, err |-> e]

\* Lines 146-151: link.Read returned the error e: readASCIIFrame returns,
\* with ErrRequestTimedOut when os.IsTimeout(e), else with e.
onReadError(e) ==
    [done |-> TRUE,
     err |-> IF e = "os.ErrDeadlineExceeded" THEN ErrRequestTimedOut ELSE e]

\* link.Read fails with a timeout: nothing arrived before the deadline
\* (lines 146-151).
ReadTimeout ==
    /\ pc = "read"
    /\ wire = <<>>
    /\ ~closed
    /\ LET r == onReadError("os.ErrDeadlineExceeded")
       IN  IF r.done
           THEN /\ res' = NoPdu
                /\ err' = r.err
                /\ pc' = "returned"
           ELSE UNCHANGED <<pc, res, err>>
    /\ UNCHANGED <<peerPdu, frame, wire, rxbuf, colon, skipped, closed>>
    /\ UNCHANGED <<lrcVars, srvVars>>
    /\ now' = IF now < deadline THEN deadline ELSE now
    /\ UNCHANGED <<deadline, lastActivity, ts, req, peerReq, writeAt, laAtWrite>>

InitFrame ==
    /\ lrcIn = <<>>
    /\ lrcArg = 0
    /\ lrcOut = -1
    /\ lrcOk = "none"
    /\ LinkIdle
    /\ ServerIdle
    /\ ClockIdle

NextFrame ==
    \/ CallReadFrame
    \/ PeerMakePdu
    \/ PeerWriteFrame
    \/ PeerWriteTestFrame
    \/ ReadWire
    \/ ReadRaw
    \/ ReadTimeout

SpecFrame == InitFrame /\ [][NextFrame]_vars

(***************************************************************************)
(* readASCIIFrame on a link that delivers line noise, truncated frames and *)
(* frames back to back: the peer writes a byte stream N \o F, N without    *)
(* ':' and F starting with ':'.                                            *)
(***************************************************************************)

MaxNoiseLen == 2

\* Noise bytes: NUL, '0', CR and LF (no ':').
NoiseBytes == {0, 48, CR, LF}

\* PDUs whose frames are streamed: two short ones and the two at the frame
\* size limit.
StreamPdus ==
    { Pdu(9, 3, <<>>), Pdu(49, 3, <<4, 17, 34, 51>>) }
    \cup { Pdu(9, 3, [i \in 1 .. n |-> 34]) :
             n \in {MaxFramedPayload, MaxFramedPayload + 1} }

\* A frame cut off before its line feed.
Truncations(f) == { SubSeq(f, 1, k) : k \in 1 .. Len(f) - 1 }

\* What follows the noise: a frame, a frame of the transport tests, a
\* truncated frame, or a truncated frame directly followed by a frame.
StreamFrames ==
    { assembleASCIIFrame(p) : p \in StreamPdus }
    \cup TestFrames
    \cup Truncations(assembleASCIIFrame(Pdu(9, 3, <<>>)))
    \cup { t \o f : t \in Truncations(assembleASCIIFrame(Pdu(9, 3, <<>>))),
                   f \in { assembleASCIIFrame(Pdu(9, 3, <<>>)),
                           assembleASCIIFrame(Pdu(49, 3, <<4, 17, 34, 51>>)) } }

\* The peer writes noise followed by F to the link; frame keeps F.
PeerWriteStream ==
    /\ pc = "read"
    /\ frame = <<>>
    /\ wire = <<>>
    /\ rxbuf = <<>>
    /\ \E n \in SeqsUpTo(NoiseBytes, MaxNoiseLen), f \in StreamFrames :
        /\ wire' = n \o f
        /\ frame' = f
    /\ UNCHANGED <<pc, peerPdu, rxbuf, colon, res, err, skipped, closed>>
    /\ UNCHANGED <<lrcVars, srvVars>>
    /\ UNCHANGED execVars

NextStream ==
    \/ CallReadFrame
    \/ PeerWriteStream
    \/ ReadWire
    \/ ReadTimeout

SpecStream == InitFrame /\ [][NextStream]_vars

(***************************************************************************)
(* Server dispatch on one ASCII link: the client transport writes a        *)
(* request frame, the server reads it, routes it to the handler, writes    *)
(* the response frame, and the client transport reads it.                  *)
(***************************************************************************)

\* readASCIIFrame run to its return on the bytes `stream` pending on the
\* link, from position i with locals buf / col; the read times out when the
\* stream ends before the frame does.
RECURSIVE readLoop(_, _, _, _)
readLoop(stream, i, buf, col) ==
    IF i > Len(stream) THEN Failed(ErrRequestTimedOut)
    ELSE LET r == scanStep(buf, col, stream[i])
         IN  IF r.done THEN [res |-> r.res, err |-> r.err]
             ELSE readLoop(stream, i + 1, r.rxbuf, r.colon)

readASCIIFrame(stream) == readLoop(stream, 1, <<>>, FALSE)

\* Mutant: the unit id is not checked.
HandleCoils_AnyUnit(cs, rq) ==
    IF rq.Addr + rq.Quantity > Len(cs)
    THEN [res |-> <<>>, err |-> ErrIllegalDataAddress, coils |-> cs]
    ELSE LET after == [k \in 1 .. Len(cs) |->
                        IF rq.IsWrite /\ k - 1 >= rq.Addr /\ k - 1 < rq.Addr + rq.Quantity
                        THEN rq.Args[k - rq.Addr] ELSE cs[k]]
         IN  [res |-> [i \in 1 .. rq.Quantity |-> after[rq.Addr + i]],
              err |-> ErrNone, coils |-> after]

\* Mutant: a write is acknowledged but not stored.
HandleCoils_WriteDropped(cs, rq) ==
    IF rq.UnitId # ServedUnitId
    THEN [res |-> <<>>, err |-> ErrIllegalFunction, coils |-> cs]
    ELSE IF rq.Addr + rq.Quantity > Len(cs)
    THEN [res |-> <<>>, err |-> ErrIllegalDataAddress, coils |-> cs]
    ELSE [res |-> [i \in 1 .. rq.Quantity |->
                    IF rq.IsWrite THEN rq.Args[i] ELSE cs[rq.Addr + i]],
          err |-> ErrNone, coils |-> cs]

\* Mutant: a read clears the coils it returns.
HandleCoils_ReadClears(cs, rq) ==
    IF rq.UnitId # ServedUnitId
    THEN [res |-> <<>>, err |-> ErrIllegalFunction, coils |-> cs]
    ELSE IF rq.Addr + rq.Quantity > Len(cs)
    THEN [res |-> <<>>, err |-> ErrIllegalDataAddress, coils |-> cs]
    ELSE LET after == [k \in 1 .. Len(cs) |->
                        IF k - 1 >= rq.Addr /\ k - 1 < rq.Addr + rq.Quantity
                        THEN (IF rq.IsWrite THEN rq.Args[k - rq.Addr] ELSE FALSE)
                        ELSE cs[k]]
         IN  [res |-> [i \in 1 .. rq.Quantity |->
                         IF rq.IsWrite THEN after[rq.Addr + i] ELSE cs[rq.Addr + i]],
              err |-> ErrNone, coils |-> after]

\* harnessHandler.HandleCoils on the coils cs: unit check, range check, then
\* for each of the Quantity coils from Addr: store Args[i] when IsWrite, and
\* append the coil to the result.
HandleCoils(cs, rq) ==
    IF rq.UnitId # ServedUnitId
    THEN [res |-> <<>>, err |-> ErrIllegalFunction, coils |-> cs]
    ELSE IF rq.Addr + rq.Quantity > Len(cs)
    THEN [res |-> <<>>, err |-> ErrIllegalDataAddress, coils |-> cs]
    ELSE LET after == [k \in 1 .. Len(cs) |->
                        IF rq.IsWrite /\ k - 1 >= rq.Addr /\ k - 1 < rq.Addr + rq.Quantity
                        THEN rq.Args[k - rq.Addr] ELSE cs[k]]
         IN  [res |-> [i \in 1 .. rq.Quantity |-> after[rq.Addr + i]],
              err |-> ErrNone, coils |-> after]

\* harnessHandler.HandleDiscreteInputs (read only).
HandleDiscreteInputs(rq) ==
    IF rq.UnitId # ServedUnitId
    THEN [res |-> <<>>, err |-> ErrIllegalFunction]
    ELSE IF rq.Addr + rq.Quantity > Len(initialDiscrete)
    THEN [res |-> <<>>, err |-> ErrIllegalDataAddress]
    ELSE [res |-> [i \in 1 .. rq.Quantity |-> initialDiscrete[rq.Addr + i]],
          err |-> ErrNone]

\* Mutant: a write is stored before the unit id is checked.
HandleHoldingRegisters_StoresFirst(hs, rq) ==
    LET inRange == rq.Addr + rq.Quantity <= Len(hs)
        after == [k \in 1 .. Len(hs) |->
                    IF inRange /\ rq.IsWrite /\ k - 1 >= rq.Addr
                       /\ k - 1 < rq.Addr + rq.Quantity
                    THEN rq.Args[k - rq.Addr] ELSE hs[k]]
    IN  IF rq.UnitId # ServedUnitId
        THEN [res |-> <<>>, err |-> ErrIllegalFunction, holding |-> after]
        ELSE IF ~inRange
        THEN [res |-> <<>>, err |-> ErrIllegalDataAddress, holding |-> hs]
        ELSE [res |-> [i \in 1 .. rq.Quantity |-> after[rq.Addr + i]],
              err |-> ErrNone, holding |-> after]

\* harnessHandler.HandleHoldingRegisters on the registers hs.
HandleHoldingRegisters(hs, rq) ==
    IF rq.UnitId # ServedUnitId
    THEN [res |-> <<>>, err |-> ErrIllegalFunction, holding |-> hs]
    ELSE IF rq.Addr + rq.Quantity > Len(hs)
    THEN [res |-> <<>>, err |-> ErrIllegalDataAddress, holding |-> hs]
    ELSE LET after == [k \in 1 .. Len(hs) |->
                        IF rq.IsWrite /\ k - 1 >= rq.Addr /\ k - 1 < rq.Addr + rq.Quantity
                        THEN rq.Args[k - rq.Addr] ELSE hs[k]]
         IN  [res |-> [i \in 1 .. rq.Quantity |-> after[rq.Addr + i]],
              err |-> ErrNone, holding |-> after]

\* harnessHandler.HandleInputRegisters (read only).
HandleInputRegisters(rq) ==
    IF rq.UnitId # ServedUnitId
    THEN [res |-> <<>>, err |-> ErrIllegalFunction]
    ELSE IF rq.Addr + rq.Quantity > Len(initialInput)
    THEN [res |-> <<>>, err |-> ErrIllegalDataAddress]
    ELSE [res |-> [i \in 1 .. rq.Quantity |-> initialInput[rq.Addr + i]],
          err |-> ErrNone]

\* Function codes and exception codes of the protocol.
fcReadCoils == 1
fcReadDiscreteInputs == 2
fcReadHoldingRegisters == 3
fcReadInputRegisters == 4
fcWriteSingleCoil == 5
fcWriteSingleRegister == 6

exIllegalFunction == 1
exIllegalDataAddress == 2
exIllegalDataValue == 3
exServerDeviceFailure == 4

\* The exception code a handler error maps to.
mapErrorToExceptionCode(e) ==
    IF e = ErrIllegalFunction THEN exIllegalFunction
    ELSE IF e = ErrIllegalDataAddress THEN exIllegalDataAddress
    ELSE exServerDeviceFailure

\* An exception response: function code with the 0x80 bit, one-byte payload.
exceptionPdu(rq, code) == Pdu(rq.unitId, rq.functionCode + 128, <<code>>)

\* Big-endian 16-bit values.
uint16ToBytes(v) == <<v \div 256, v % 256>>

bytesToUint16(hi, lo) == 256 * hi + lo

Pow2(k) == IF k = 0 THEN 1 ELSE IF k = 1 THEN 2 ELSE IF k = 2 THEN 4
           ELSE IF k = 3 THEN 8 ELSE IF k = 4 THEN 16 ELSE IF k = 5 THEN 32
           ELSE IF k = 6 THEN 64 ELSE 128

\* Bit-packing of a coil-family read: byte count, then 8 values per byte,
\* the first value in the least significant bit.
encodeBools(bits) ==
    LET nbytes == (Len(bits) + 7) \div 8
        byteAt(j) == LET ks == { k \in 0 .. 7 : 8 * j + k + 1 <= Len(bits)
                                               /\ bits[8 * j + k + 1] }
                         sum[S \in SUBSET ks] ==
                             IF S = {} THEN 0
                             ELSE LET k == CHOOSE x \in S : TRUE
                                  IN  Pow2(k) + sum[S \ {k}]
                     IN  sum[ks]
    IN  <<nbytes>> \o [j \in 1 .. nbytes |-> byteAt(j - 1)]

\* Register-family read: byte count, then two bytes per value, big-endian.
encodeWords(vals) ==
    <<2 * Len(vals)>> \o
        [i \in 1 .. 2 * Len(vals) |-> uint16ToBytes(vals[(i + 1) \div 2])[2 - (i % 2)]]

Descriptor(rq, qty, isWrite, args) ==
    [UnitId |-> rq.unitId, Addr |-> bytesToUint16(rq.payload[1], rq.payload[2]),
     Quantity |-> qty, IsWrite |-> isWrite, Args |-> args]

\* One dispatch of the server: the function code selects the request shape
\* and the handler method; the outcome is a response PDU or an exception PDU,
\* and the handler's data after the call (the handler keeps whatever it
\* stored, for a read as for a write).
dispatch(cs, hs, rq) ==
    LET word == bytesToUint16(rq.payload[3], rq.payload[4])
        out(c, h, r) == [coils |-> c, holding |-> h, res |-> r]
        ex(e) == exceptionPdu(rq, mapErrorToExceptionCode(e))
        ok(pl) == Pdu(rq.unitId, rq.functionCode, pl)
    IN  IF rq.functionCode = fcReadCoils THEN
            LET h == HandleCoils(cs, Descriptor(rq, word, FALSE, <<>>))
            IN  out(h.coils, hs, IF h.err # ErrNone THEN ex(h.err)
                                 ELSE ok(encodeBools(h.res)))
        ELSE IF rq.functionCode = fcReadDiscreteInputs THEN
            LET h == HandleDiscreteInputs(Descriptor(rq, word, FALSE, <<>>))
            IN  out(cs, hs, IF h.err # ErrNone THEN ex(h.err)
                            ELSE ok(encodeBools(h.res)))
        ELSE IF rq.functionCode = fcReadHoldingRegisters THEN
            LET h == HandleHoldingRegisters(hs, Descriptor(rq, word, FALSE, <<>>))
            IN  out(cs, h.holding, IF h.err # ErrNone THEN ex(h.err)
                                   ELSE ok(encodeWords(h.res)))
        ELSE IF rq.functionCode = fcReadInputRegisters THEN
            LET h == HandleInputRegisters(Descriptor(rq, word, FALSE, <<>>))
            IN  out(cs, hs, IF h.err # ErrNone THEN ex(h.err)
                            ELSE ok(encodeWords(h.res)))
        ELSE IF rq.functionCode = fcWriteSingleCoil THEN
            IF word \notin {65280, 0}
            THEN out(cs, hs, exceptionPdu(rq, exIllegalDataValue))
            ELSE LET h == HandleCoils(cs, Descriptor(rq, 1, TRUE, <<word = 65280>>))
                 IN  out(h.coils, hs, IF h.err # ErrNone THEN ex(h.err)
                                      ELSE ok(rq.payload))
        ELSE IF rq.functionCode = fcWriteSingleRegister THEN
            LET h == HandleHoldingRegisters(hs, Descriptor(rq, 1, TRUE, <<word>>))
            IN  out(cs, h.holding, IF h.err # ErrNone THEN ex(h.err)
                                   ELSE ok(rq.payload))
        ELSE out(cs, hs, exceptionPdu(rq, exIllegalFunction))

MaxQuantity == 2

\* Unit ids of the requests: the served one and a foreign one (7 in the RTU
\* server test).
RequestUnits == {ServedUnitId, 7}

\* Addresses read: coil 4 and register 3 of the tests, and the last register.
RequestAddrs == {3, 4, 136}

\* Addresses written.
CoilWriteAddrs == {4}

RegisterWriteAddrs == {3, 136}

\* Register values written (0xABCD of the test, 0x0102).
RegisterValues == {43981, 258}

\* 0x11 stands for a function code the server does not know.
RequestPdus ==
    { Pdu(u, f, uint16ToBytes(a) \o uint16ToBytes(q)) :
        u \in RequestUnits,
        f \in {fcReadCoils, fcReadDiscreteInputs, fcReadHoldingRegisters,
               fcReadInputRegisters, 17},
        a \in RequestAddrs, q \in 1 .. MaxQuantity }
    \cup { Pdu(u, fcWriteSingleCoil, uint16ToBytes(a) \o uint16ToBytes(v)) :
        u \in RequestUnits, a \in CoilWriteAddrs \cup {136}, v \in {65280, 0} }
    \cup { Pdu(u, fcWriteSingleRegister, uint16ToBytes(a) \o uint16ToBytes(v)) :
        u \in RequestUnits, a \in RegisterWriteAddrs \cup {137}, v \in RegisterValues }

\* ExecuteRequest, first half: the client transport writes the request frame.
ClientWriteRequest ==
    /\ spc \in {"idle", "done"}
    /\ \E rq \in RequestPdus :
        /\ creq' = rq
        /\ c2s' = assembleASCIIFrame(rq)
    /\ s2c' = <<>>
    /\ cres' = NoPdu
    /\ cerr' = ErrNone
    /\ before' = [coils |-> coils, holding |-> holding,
                  prevException |-> (cres # NoPdu /\ cres.functionCode >= 128)]
    /\ spc' = "sent"
    /\ UNCHANGED <<coils, holding, written, tracked>>
    /\ UNCHANGED <<lrcVars, linkVars, execVars>>

\* The history of the followed read after the server wrote the frame f in
\* answer to rq: a write request ends the following, an answer to the
\* followed request is recorded.
TrackServed(t, rq, f) ==
    IF rq.functionCode \in {fcWriteSingleCoil, fcWriteSingleRegister} THEN NoTrack
    ELSE IF t.req = NoPdu \/ t.req # rq THEN t
    ELSE IF t.n = 0 THEN [t EXCEPT !.first = f, !.last = f, !.n = 1]
    ELSE [t EXCEPT !.last = f, !.n = 2]

\* One iteration of the server loop: ReadRequest, dispatch, WriteResponse.
\* A transport error while reading ends the loop without a response.
ServerServe ==
    /\ spc = "sent"
    /\ LET rd == readASCIIFrame(c2s)
           d  == dispatch(coils, holding, rd.res)
       IN  IF rd.err # ErrNone
           THEN /\ spc' = "closed"
                /\ UNCHANGED <<coils, holding, s2c, tracked>>
           ELSE /\ coils' = d.coils
                /\ holding' = d.holding
                /\ s2c' = assembleASCIIFrame(d.res)
                /\ tracked' = TrackServed(tracked, rd.res, assembleASCIIFrame(d.res))
                /\ spc' = "served"
    /\ c2s' = <<>>
    /\ UNCHANGED <<creq, cres, cerr, before, written>>
    /\ UNCHANGED <<lrcVars, linkVars, execVars>>

\* The value a request writes, as the history records it.
WrittenBy(rq, w) ==
    LET a == bytesToUint16(rq.payload[1], rq.payload[2])
        v == bytesToUint16(rq.payload[3], rq.payload[4])
    IN  IF rq.functionCode = fcWriteSingleCoil
        THEN [w EXCEPT !.coil = (a :> v) @@ w.coil]
        ELSE IF rq.functionCode = fcWriteSingleRegister
        THEN [w EXCEPT !.reg = (a :> v) @@ w.reg]
        ELSE w

\* ExecuteRequest, second half: the client transport reads the response.
ClientReadResponse ==
    /\ spc = "served"
    /\ LET rd == readASCIIFrame(s2c)
       IN  /\ cres' = rd.res
           /\ cerr' = rd.err
           /\ written' = IF rd.err = ErrNone /\ rd.res.functionCode = creq.functionCode
                         THEN WrittenBy(creq, written) ELSE written
    /\ s2c' = <<>>
    /\ spc' = "done"
    /\ UNCHANGED <<coils, holding, creq, c2s, before, tracked>>
    /\ UNCHANGED <<lrcVars, linkVars, execVars>>

InitServer ==
    /\ lrcIn = <<>>
    /\ lrcArg = 0
    /\ lrcOut = -1
    /\ lrcOk = "none"
    /\ LinkIdle
    /\ ServerIdle
    /\ ClockIdle

NextServer == ClientWriteRequest \/ ServerServe \/ ClientReadResponse

SpecServer == InitServer /\ [][NextServer]_vars

(***************************************************************************)
(* A client that repeats read requests against the server: it picks a read *)
(* request to follow, and sends it again among other reads and writes.     *)
(***************************************************************************)

\* The read requests the client repeats: each read function on the served
\* unit, a read past the end of the registers, a read of a foreign unit.
RepeatedReads ==
    { Pdu(ServedUnitId, f, uint16ToBytes(a) \o uint16ToBytes(q)) :
        f \in {fcReadCoils, fcReadDiscreteInputs, fcReadHoldingRegisters,
               fcReadInputRegisters},
        a \in {3}, q \in {MaxQuantity} }
    \cup { Pdu(ServedUnitId, fcReadHoldingRegisters, uint16ToBytes(136) \o uint16ToBytes(q)) :
             q \in 1 .. MaxQuantity }
    \cup { Pdu(7, fcReadCoils, uint16ToBytes(4) \o uint16ToBytes(1)) }

\* The write requests sent in between: coil 4, register 3, and a write
\* past the end of the coils.
InterveningWrites ==
    { Pdu(ServedUnitId, fcWriteSingleCoil, uint16ToBytes(a) \o uint16ToBytes(v)) :
        a \in CoilWriteAddrs \cup {136}, v \in {65280, 0} }
    \cup { Pdu(ServedUnitId, fcWriteSingleRegister, uint16ToBytes(3) \o uint16ToBytes(v)) :
             v \in RegisterValues }

\* ExecuteRequest, first half, of the repeating client; when no read is
\* followed it may start to follow the read it sends.
ClientRepeatRequest ==
    /\ spc \in {"idle", "done"}
    /\ \E rq \in RepeatedReads \cup InterveningWrites, follow \in BOOLEAN :
        /\ creq' = rq
        /\ c2s' = assembleASCIIFrame(rq)
        /\ tracked' = IF follow /\ tracked = NoTrack /\ rq \in RepeatedReads
                      THEN [NoTrack EXCEPT !.req = rq]
                      ELSE tracked
    /\ s2c' = <<>>
    /\ cres' = NoPdu
    /\ cerr' = ErrNone
    /\ before' = [coils |-> coils, holding |-> holding,
                  prevException |-> (cres # NoPdu /\ cres.functionCode >= 128)]
    /\ spc' = "sent"
    /\ UNCHANGED <<coils, holding, written>>
    /\ UNCHANGED <<lrcVars, linkVars, execVars>>

NextReads == ClientRepeatRequest \/ ServerServe \/ ClientReadResponse

SpecReads == InitServer /\ [][NextReads]_vars

(***************************************************************************)
(* asciiTransport.ExecuteRequest on a client transport.  The clock is      *)
(* re-based at every call: instants count from the start of the call, and  *)
(* a lastActivity older than t3.5 + 1 tick is recorded as exactly that old *)
(* (the code compares the clock with lastActivity + t3.5 only).            *)
(***************************************************************************)

ErrLinkClosed == "ErrLinkClosed"

\* The error of a link operation that ran past the deadline (for which
\* os.IsTimeout is true), as the link returns it.
ErrDeadlineExceeded == "os.ErrDeadlineExceeded"

\* The outcomes of link.Write: all bytes written, the link closed, the
\* deadline exceeded.
WriteOutcomes == {ErrNone, ErrLinkClosed, ErrDeadlineExceeded}

\* The requests executed: one with and one without payload.
ExecRequests == { Pdu(9, 3, <<0, 3, 0, 1>>), Pdu(1, 17, <<>>) }

\* Time the caller lets pass between the return of a call and the next call.
CallGaps == {0, 1, T35, T35 + 1}

\* time.Sleep returns after at least the duration asked: extra ticks slept.
Oversleep == {0, 1}

Max(a, b) == IF a >= b THEN a ELSE b

\* Mutant: the silence is counted from lastActivity, t3.5 left out.
silenceWake_NoT35(t, la) == IF t - la < 0 THEN la ELSE t

\* Lines 66-69: t = time.Since(lastActivity + t35); if t < 0, sleep -t.  The
\* earliest instant at which the sleep is over, called at instant t.
silenceWake(t, la) == IF t - (la + T35) < 0 THEN t + (0 - (t - (la + T35))) ELSE t

\* Lines 55-63: the call, made after one of the gaps since the last return:
\* SetDeadline(now + timeout), return on its error.
ExecCallAfter(gaps) ==
    /\ pc \in {"idle", "done"}
    /\ \E gap \in gaps, p \in ExecRequests,
          armed \in (IF closed THEN {FALSE} ELSE BOOLEAN) :
        /\ now' = 0
        /\ lastActivity' = Max(lastActivity - (now + gap), 0 - (T35 + 1))
        /\ req' = p
        /\ res' = NoPdu
        /\ IF armed
           THEN /\ deadline' = 0 + Timeout
                /\ err' = ErrNone
                /\ pc' = "silence"
           ELSE /\ deadline' = 0
                /\ err' = ErrLinkClosed
                /\ pc' = "done"
    /\ ts' = 0
    /\ writeAt' = 0
    /\ laAtWrite' = lastActivity'
    /\ frame' = <<>>
    /\ rxbuf' = <<>>
    /\ colon' = FALSE
    /\ skipped' = <<>>
    /\ UNCHANGED closed
    /\ UNCHANGED <<peerPdu, wire, peerReq>>
    /\ UNCHANGED <<lrcVars, srvVars>>

ExecCall == ExecCallAfter(CallGaps)

\* Lines 65-71: the inter-frame delay, then ts = time.Now().
ExecSilence ==
    /\ pc = "silence"
    /\ \E over \in Oversleep :
        now' = IF silenceWake(now, lastActivity) > now
               THEN silenceWake(now, lastActivity) + over
               ELSE now
    /\ ts' = now'
    /\ pc' = "write"
    /\ UNCHANGED <<peerPdu, frame, wire, rxbuf, colon, res, err, skipped, closed>>
    /\ UNCHANGED <<deadline, lastActivity, req, peerReq, writeAt, laAtWrite>>
    /\ UNCHANGED <<lrcVars, srvVars>>

\* Lines 73-80: assemble the frame, link.Write; on success lastActivity is
\* ts + n * t1 and the peer has the request; on a write error (the link is
\* closed, or the write blocked until the deadline) the call returns that
\* error as the link gave it.
ExecWrite ==
    /\ pc = "write"
    /\ writeAt' = now
    /\ laAtWrite' = lastActivity
    /\ frame' = assembleASCIIFrame(req)
    /\ \E werr \in WriteOutcomes :
        IF werr = ErrNone
        THEN /\ lastActivity' = ts + Len(assembleASCIIFrame(req)) * T1
             /\ peerReq' = req
             /\ pc' = "idlewait"
             /\ UNCHANGED <<err, now>>
        ELSE /\ err' = werr
             /\ pc' = "done"
             /\ now' = IF werr = ErrDeadlineExceeded /\ now < deadline
                       THEN deadline ELSE now
             /\ UNCHANGED <<lastActivity, peerReq>>
    /\ UNCHANGED <<peerPdu, wire, rxbuf, colon, res, skipped, closed>>
    /\ UNCHANGED <<deadline, ts, req>>
    /\ UNCHANGED <<lrcVars, srvVars>>

\* Lines 82-85: sleep until lastActivity + t35, then enter readASCIIFrame.
ExecIdleWait ==
    /\ pc = "idlewait"
    /\ now' = Max(now, lastActivity + T35)
    /\ pc' = "read"
    /\ rxbuf' = <<>>
    /\ colon' = FALSE
    /\ skipped' = <<>>
    /\ UNCHANGED closed
    /\ UNCHANGED <<peerPdu, frame, wire, res, err>>
    /\ UNCHANGED <<deadline, lastActivity, ts, req, peerReq, writeAt, laAtWrite>>
    /\ UNCHANGED <<lrcVars, srvVars>>

\* What the peer may put on the link in answer to rq: the frame of a response
\* PDU, that frame with a wrong LRC, a short frame, a frame of odd length.
PeerAnswers(rq) ==
    { assembleASCIIFrame(Pdu(rq.unitId, rq.functionCode, <<2, 171, 205>>)),
      <<58, 51, 49, 48, 51, 48, 52, 49, 49, 50, 50, 51, 51, 48, 48, 13, 10>>,
      <<58, 51, 51, 13, 10>>,
      <<58, 48, 48, 48, 48, 48, 48, 48, 13, 10>> }

\* The peer answers the request it received.
PeerRespond ==
    /\ pc \in {"idlewait", "read"}
    /\ peerReq # NoPdu
    /\ \E f \in PeerAnswers(peerReq) : wire' = wire \o f
    /\ peerReq' = NoPdu
    /\ UNCHANGED <<pc, peerPdu, frame, rxbuf, colon, res, err, skipped, closed>>
    /\ UNCHANGED <<now, deadline, lastActivity, ts, req, writeAt, laAtWrite>>
    /\ UNCHANGED <<lrcVars, srvVars>>

\* The peer answers late: the call that sent the request has left
\* readASCIIFrame (it timed out or failed), or the next call has begun; the
\* frame stays pending on the link, nothing in lines 55-96 removes it.
PeerRespondLate ==
    /\ pc \in {"returned", "done", "silence", "write"}
    /\ peerReq # NoPdu
    /\ \E f \in PeerAnswers(peerReq) : wire' = wire \o f
    /\ peerReq' = NoPdu
    /\ UNCHANGED <<pc, peerPdu, frame, rxbuf, colon, res, err, skipped, closed>>
    /\ UNCHANGED <<now, deadline, lastActivity, ts, req, writeAt, laAtWrite>>
    /\ UNCHANGED <<lrcVars, srvVars>>

\* link.Read fails with an error that is no timeout (the link was closed).
ReadLinkError ==
    /\ pc = "read"
    /\ wire = <<>>
    /\ res' = NoPdu
    /\ err' = ErrLinkClosed
    /\ pc' = "returned"
    /\ UNCHANGED <<peerPdu, frame, wire, rxbuf, colon, skipped, closed>>
    /\ UNCHANGED execVars
    /\ UNCHANGED <<lrcVars, srvVars>>

\* discard(link): the bytes pending on the link are dropped.
discard(w) == <<>>

\* Mutant: every failed read is followed by the discard.
isNoiseError_AnyError(e) == e # ErrNone

\* Line 86: err == ErrBadLRC || err == ErrProtocolError || err == ErrShortFrame.
isNoiseError(e) == e = ErrBadLRC \/ e = ErrProtocolError \/ e = ErrShortFrame

\* Mutant: lastActivity is stamped after a timeout too.
lastActivityAfterRead_Always(e, la, t) == t

\* Lines 91-93: if err != ErrRequestTimedOut, lastActivity = time.Now().
lastActivityAfterRead(e, la, t) == IF e # ErrRequestTimedOut THEN t ELSE la

\* Lines 86-95: after readASCIIFrame returned: on a checksum, protocol or
\* short-frame error sleep one maximum frame time and discard; unless the
\* error is the timeout, lastActivity = time.Now(); return.
ExecFinish ==
    /\ pc = "returned"
    /\ req # NoPdu
    /\ LET noisy == isNoiseError(err)
           t     == IF noisy THEN now + maxASCIIFrameLength * T1 ELSE now
       IN  /\ now' = t
           /\ wire' = IF noisy THEN discard(wire) ELSE wire
           /\ lastActivity' = lastActivityAfterRead(err, lastActivity, t)
    /\ pc' = "done"
    /\ UNCHANGED <<peerPdu, frame, rxbuf, colon, res, err, skipped, closed>>
    /\ UNCHANGED <<deadline, ts, req, peerReq, writeAt, laAtWrite>>
    /\ UNCHANGED <<lrcVars, srvVars>>

InitExec ==
    /\ lrcIn = <<>>
    /\ lrcArg = 0
    /\ lrcOut = -1
    /\ lrcOk = "none"
    /\ LinkIdle
    /\ ServerIdle
    /\ ClockIdle

(***************************************************************************)
(* ExecuteRequest and ReadRequest on a link that honours its deadline,     *)
(* with a peer that may stream bytes without end and a link that may be    *)
(* closed at any moment.                                                   *)
(***************************************************************************)

\* The time between two bytes of a stream the peer keeps sending.
StreamGap == 10 * T1

\* The calls follow each other after more than t3.5 of silence.
LongGaps == {T35 + 1}

\* Bytes of the stream: NUL (noise) or ':' before the frame start, '0' or
\* a line feed after it.
StreamBytes == IF colon THEN {48, LF} ELSE {0, Colon}

\* ReadRequest, lines 99-105: SetDeadline(now + timeout), return on its
\* error, else enter readASCIIFrame.
CallReadRequest ==
    /\ pc \in {"idle", "done"}
    /\ \E gap \in LongGaps, armed \in (IF closed THEN {FALSE} ELSE BOOLEAN) :
        /\ now' = 0
        /\ lastActivity' = Max(lastActivity - (now + gap), 0 - (T35 + 1))
        /\ IF armed
           THEN /\ deadline' = 0 + Timeout
                /\ err' = ErrNone
                /\ pc' = "read"
           ELSE /\ deadline' = 0
                /\ err' = ErrLinkClosed
                /\ pc' = "done"
    /\ req' = NoPdu
    /\ res' = NoPdu
    /\ ts' = 0
    /\ writeAt' = 0
    /\ laAtWrite' = lastActivity'
    /\ frame' = <<>>
    /\ rxbuf' = <<>>
    /\ colon' = FALSE
    /\ skipped' = <<>>
    /\ UNCHANGED closed
    /\ UNCHANGED <<peerPdu, wire, peerReq>>
    /\ UNCHANGED <<lrcVars, srvVars>>

\* ReadRequest, lines 106-110: if err == nil, lastActivity = time.Now().
ReadRequestReturn ==
    /\ pc = "returned"
    /\ req = NoPdu
    /\ lastActivity' = IF err = ErrNone THEN now ELSE lastActivity
    /\ pc' = "done"
    /\ UNCHANGED <<peerPdu, frame, wire, rxbuf, colon, res, err, skipped, closed>>
    /\ UNCHANGED <<now, deadline, ts, req, peerReq, writeAt, laAtWrite>>
    /\ UNCHANGED <<lrcVars, srvVars>>

\* link.Read returns the next byte of the stream, which arrives before the
\* deadline.
ReadStreamByte ==
    /\ pc = "read"
    /\ wire = <<>>
    /\ ~closed
    /\ now + StreamGap < deadline
    /\ \E b \in StreamBytes : ScanByte(b)
    /\ now' = now + StreamGap
    /\ UNCHANGED <<peerPdu, frame, wire, closed>>
    /\ UNCHANGED <<deadline, lastActivity, ts, req, peerReq, writeAt, laAtWrite>>
    /\ UNCHANGED <<lrcVars, srvVars>>

\* Close(): the link is closed while an operation is in progress.
CloseLink ==
    /\ pc \in {"silence", "write", "idlewait", "read"}
    /\ ~closed
    /\ closed' = TRUE
    /\ UNCHANGED <<pc, peerPdu, frame, wire, rxbuf, colon, res, err, skipped>>
    /\ UNCHANGED execVars
    /\ UNCHANGED <<lrcVars, srvVars>>

\* link.Read on the closed link fails at once (lines 145-151).
ReadClosed ==
    /\ pc = "read"
    /\ closed
    /\ res' = NoPdu
    /\ err' = onReadError(ErrLinkClosed).err
    /\ pc' = "returned"
    /\ UNCHANGED <<peerPdu, frame, wire, rxbuf, colon, skipped, closed>>
    /\ UNCHANGED execVars
    /\ UNCHANGED <<lrcVars, srvVars>>

\* link.Read returns: with a byte or with an error.
ReadStep == ReadWire \/ ReadStreamByte \/ ReadTimeout \/ ReadClosed

NextLive ==
    \/ ExecCallAfter(LongGaps)
    \/ CallReadRequest
    \/ ExecSilence
    \/ ExecWrite
    \/ ExecIdleWait
    \/ PeerRespond
    \/ CloseLink
    \/ ReadStep
    \/ ExecFinish
    \/ ReadRequestReturn

\* Sleeps end, link.Write and link.Read return (the link honours its
\* deadline), and the code after them runs; the caller and the peer are
\* under no obligation.
SpecLive ==
    /\ InitExec
    /\ [][NextLive]_vars
    /\ WF_vars(ExecSilence)
    /\ WF_vars(ExecWrite)
    /\ WF_vars(ExecIdleWait)
    /\ WF_vars(ReadStep)
    /\ WF_vars(ExecFinish)
    /\ WF_vars(ReadRequestReturn)

NextExec ==
    \/ ExecCall
    \/ ExecSilence
    \/ ExecWrite
    \/ ExecIdleWait
    \/ PeerRespond
    \/ PeerRespondLate
    \/ ReadWire
    \/ ReadTimeout
    \/ ReadLinkError
    \/ ExecFinish

SpecExec == InitExec /\ [][NextExec]_vars

(***************************************************************************)
(* Claims about the LRC primitives (checked under SpecLRC).                *)
(***************************************************************************)

\* Unbounded integer sum of s[lo..hi] (specification side only).
RECURSIVE IntSumRange(_, _, _)
IntSumRange(s, lo, hi) ==
    IF lo > hi THEN 0
    ELSE IF lo = hi THEN s[lo]
    ELSE IntSumRange(s, lo, (lo + hi) \div 2) + IntSumRange(s, (lo + hi) \div 2 + 1, hi)

IntSum(s) == IntSumRange(s, 1, Len(s))

\* C1: for every buffer B and byte X, verifyLRC(B, X) is true exactly when
\* X is the byte computeLRC returned for B; the computed LRC is accepted and
\* each of the 255 other bytes is rejected.
C1_VerifyIffComputed ==
    /\ (lrcOk # "none" /\ lrcOut # -1) => ((lrcOk = "true") <=> (lrcArg = lrcOut))
    /\ lrcOut # -1 =>
        /\ verifyLRC(lrcIn, lrcOut)
        /\ \A x \in Byte : verifyLRC(lrcIn, x) => x = lrcOut

C1_Witness ==
    /\ lrcOut # -1
    /\ lrcOk = "true"
    /\ lrcIn = <<16, 17, 18>>
    /\ lrcArg = 205

C1_WitnessReject ==
    /\ lrcOut # -1
    /\ lrcOk = "false"
    /\ lrcIn = <<>>
    /\ lrcArg = 1

\* C2: computeLRC(B) is a byte that brings the integer sum of B to a multiple
\* of 256 (two's complement of the sum modulo 256); the empty buffer gives 0,
\* [01,03,00,13,00,0A] gives 0xDF and [10,11,12] gives 0xCD.
C2_TwosComplement ==
    lrcOut # -1 =>
        /\ lrcOut \in Byte
        /\ (IntSum(lrcIn) + lrcOut) % 256 = 0
        /\ lrcIn = <<>> => lrcOut = 0
        /\ lrcIn = <<1, 3, 0, 19, 0, 10>> => lrcOut = 223
        /\ lrcIn = <<16, 17, 18>> => lrcOut = 205

C2_Witness ==
    /\ lrcIn = <<1, 3, 0, 19, 0, 10>>
    /\ lrcOut = 223

(***************************************************************************)
(* Claims about ASCII framing (checked under SpecFrame).  The helpers      *)
(* below restate the wire format independently of the model's codec.       *)
(***************************************************************************)

UpperHexDigits == (48 .. 57) \cup (65 .. 70)

AnyHexDigits == UpperHexDigits \cup (97 .. 102)

HexDigitValue(c) ==
    IF c <= 57 THEN c - 48 ELSE IF c <= 70 THEN c - 55 ELSE c - 87

\* The received frame starts with ':' and ends with CR LF.
CRLFFramed(buf) ==
    /\ Len(buf) >= 3
    /\ buf[1] = Colon
    /\ buf[Len(buf) - 1] = CR
    /\ buf[Len(buf)] = LF

\* The characters between ':' and CR LF.
Region(buf) == SubSeq(buf, 2, Len(buf) - 2)

CleanHex(r) == Len(r) % 2 = 0 /\ \A i \in 1 .. Len(r) : r[i] \in AnyHexDigits

RegionBytes(r) ==
    [i \in 1 .. Len(r) \div 2 |->
        16 * HexDigitValue(r[2 * i - 1]) + HexDigitValue(r[2 * i])]

\* The frame was written by a transport and readASCIIFrame has returned.
RoundTripDone == pc = "returned" /\ frame # <<>>

\* C3 as stated: the round trip succeeds for every payload of 0 to 253 bytes.
C3_RoundTripUpTo253 ==
    (RoundTripDone /\ Len(peerPdu.payload) <= 253) =>
        (err = ErrNone /\ res = peerPdu)

\* C3 (amended): for every PDU whose payload has 0 to 252 bytes (a frame of at
\* most maxASCIIFrameLength characters), readASCIIFrame fed the bytes of
\* assembleASCIIFrame(P) returns, without error, a PDU with the unit id,
\* function code and payload of P; a payload of 253 bytes is rejected with
\* the protocol error.
C3_RoundTrip ==
    RoundTripDone =>
        /\ Len(peerPdu.payload) <= MaxFramedPayload =>
                /\ err = ErrNone
                /\ res.unitId = peerPdu.unitId
                /\ res.functionCode = peerPdu.functionCode
                /\ res.payload = peerPdu.payload
        /\ Len(peerPdu.payload) = MaxFramedPayload + 1 =>
                (err = ErrProtocolError /\ res = NoPdu)

C3_Witness ==
    /\ RoundTripDone
    /\ Len(peerPdu.payload) = MaxFramedPayload
    /\ err = ErrNone
    /\ res = peerPdu

\* C4: the assembled frame is ':' , two upper-case hex digits per byte of
\* unit id, function code, payload and LRC in that order, CR, LF; its length
\* is 2*(len(payload)+3)+3; the PDU it was assembled from stays as it was
\* (the frame keeps matching it); unit 0x33, function 0x11, payload [22,33]
\* gives ":3311223367" CR LF.
C4_FrameLayout ==
    frame # <<>> =>
        LET data == <<peerPdu.unitId, peerPdu.functionCode>> \o peerPdu.payload
            n    == Len(data)
        IN  /\ peerPdu \in PduSample
            /\ Len(frame) = 2 * (Len(peerPdu.payload) + 3) + 3
            /\ frame[1] = Colon
            /\ frame[Len(frame) - 1] = CR
            /\ frame[Len(frame)] = LF
            /\ \A i \in 2 .. Len(frame) - 2 : frame[i] \in UpperHexDigits
            /\ \A i \in 1 .. n :
                16 * HexDigitValue(frame[2 * i]) + HexDigitValue(frame[2 * i + 1])
                    = data[i]
            /\ (IntSum(data) + 16 * HexDigitValue(frame[2 * n + 2])
                    + HexDigitValue(frame[2 * n + 3])) % 256 = 0
            /\ peerPdu = Pdu(51, 17, <<34, 51>>) =>
                frame = <<58, 51, 51, 49, 49, 50, 50, 51, 51, 54, 55, 13, 10>>

C4_Witness ==
    /\ peerPdu = Pdu(51, 17, <<34, 51>>)
    /\ frame = <<58, 51, 51, 49, 49, 50, 50, 51, 51, 54, 55, 13, 10>>

\* C5: readASCIIFrame returns a PDU only for a frame whose last decoded byte
\* is the LRC of the decoded bytes before it (all decoded bytes sum to 0
\* modulo 256); a CRLF-terminated, cleanly decoding frame of at least 3
\* decoded bytes with another last byte gives ErrBadLRC and no PDU.
C5_ChecksumGate ==
    pc = "returned" =>
        /\ res # NoPdu =>
            /\ err = ErrNone
            /\ CRLFFramed(rxbuf)
            /\ CleanHex(Region(rxbuf))
            /\ IntSum(RegionBytes(Region(rxbuf))) % 256 = 0
        /\ ( /\ CRLFFramed(rxbuf)
             /\ CleanHex(Region(rxbuf))
             /\ Len(Region(rxbuf)) >= 6
             /\ IntSum(RegionBytes(Region(rxbuf))) % 256 # 0 )
           => (err = ErrBadLRC /\ res = NoPdu)

\* ":31030411223300" CR LF of TestASCIITransportReadASCIIFrameBadLRC.
C5_Witness ==
    /\ pc = "returned"
    /\ rxbuf = <<58, 51, 49, 48, 51, 48, 52, 49, 49, 50, 50, 51, 51, 48, 48, 13, 10>>
    /\ err = ErrBadLRC
    /\ res = NoPdu

\* C6: a frame ':' ... CR LF whose region decodes to fewer than 3 bytes gives
\* ErrShortFrame, an error distinct from ErrBadLRC and ErrProtocolError.
C6_ShortFrame ==
    ( /\ pc = "returned"
      /\ err # ErrRequestTimedOut
      /\ CRLFFramed(rxbuf)
      /\ CleanHex(Region(rxbuf))
      /\ Len(RegionBytes(Region(rxbuf))) < 3 )
    => /\ err = ErrShortFrame
       /\ res = NoPdu
       /\ ErrShortFrame \notin {ErrBadLRC, ErrProtocolError, ErrNone}

\* ":33" CR LF of TestASCIITransportReadASCIIFrameShort.
C6_Witness ==
    /\ pc = "returned"
    /\ rxbuf = <<58, 51, 51, 13, 10>>
    /\ err = ErrShortFrame

\* The region has odd length or holds a character that is no hex digit.
Undecodable(r) == Len(r) % 2 = 1 \/ \E i \in 1 .. Len(r) : r[i] \notin AnyHexDigits

ReturnedFramed == pc = "returned" /\ err # ErrRequestTimedOut /\ CRLFFramed(rxbuf)

\* C7 as stated: an undecodable region gives ErrProtocolError whatever its
\* length.
C7_UndecodableIsProtocolError ==
    (ReturnedFramed /\ Undecodable(Region(rxbuf))) => err = ErrProtocolError

\* C7 (amended): for a frame ':' ... CR LF whose region has at least 6
\* characters, an odd length or a non-hex character gives ErrProtocolError;
\* a region shorter than 6 characters gives ErrShortFrame, whatever it holds.
C7_UndecodableLongRegion ==
    ReturnedFramed =>
        /\ (Len(Region(rxbuf)) >= 6 /\ Undecodable(Region(rxbuf)))
                => (err = ErrProtocolError /\ res = NoPdu)
        /\ Len(Region(rxbuf)) < 6 => (err = ErrShortFrame /\ res = NoPdu)

C7_Witness ==
    /\ ReturnedFramed
    /\ Len(Region(rxbuf)) = 6
    /\ Region(rxbuf)[6] = 71
    /\ \A i \in 1 .. 5 : Region(rxbuf)[i] \in AnyHexDigits
    /\ err = ErrProtocolError

C7_WitnessOdd ==
    /\ ReturnedFramed
    /\ Len(Region(rxbuf)) = 7
    /\ CleanHex(SubSeq(Region(rxbuf), 1, 6))
    /\ err = ErrProtocolError

(***************************************************************************)
(* Claims about server dispatch (checked under SpecServer).                *)
(***************************************************************************)

ReqAddr == bytesToUint16(creq.payload[1], creq.payload[2])

ReqWord == bytesToUint16(creq.payload[3], creq.payload[4])

\* Bit k (0 = least significant) of byte b.
BitOf(b, k) == (b \div Pow2(k)) % 2

\* The client has the answer to a request it sent to the served unit.
AnsweredServed == spc = "done" /\ creq.unitId = ServedUnitId

\* C8: once a write single coil / write single register to the served unit
\* was answered successfully, a later read over that address (no other write
\* to it in between) is answered, without transport error, by a normal
\* response carrying the written value: for coils the byte count and the bit
\* of the coil (set after 0xFF00, clear after 0x0000), for registers the byte
\* count 2*quantity and the value big-endian.
C8_ReadAfterWrite ==
    AnsweredServed =>
        /\ ( /\ creq.functionCode = fcReadCoils
             /\ ReqAddr + ReqWord <= Len(initialCoils)
             /\ \E i \in 0 .. ReqWord - 1 : ReqAddr + i \in DOMAIN written.coil )
           => /\ cerr = ErrNone
              /\ cres.unitId = creq.unitId
              /\ cres.functionCode = fcReadCoils
              /\ Len(cres.payload) = 2
              /\ cres.payload[1] = 1
              /\ \A i \in 0 .. ReqWord - 1 :
                    ReqAddr + i \in DOMAIN written.coil =>
                        BitOf(cres.payload[2], i)
                            = (IF written.coil[ReqAddr + i] = 65280 THEN 1 ELSE 0)
        /\ ( /\ creq.functionCode = fcReadHoldingRegisters
             /\ ReqAddr + ReqWord <= Len(initialHolding)
             /\ \E i \in 0 .. ReqWord - 1 : ReqAddr + i \in DOMAIN written.reg )
           => /\ cerr = ErrNone
              /\ cres.unitId = creq.unitId
              /\ cres.functionCode = fcReadHoldingRegisters
              /\ Len(cres.payload) = 1 + 2 * ReqWord
              /\ cres.payload[1] = 2 * ReqWord
              /\ \A i \in 0 .. ReqWord - 1 :
                    ReqAddr + i \in DOMAIN written.reg =>
                        /\ cres.payload[2 + 2 * i] = written.reg[ReqAddr + i] \div 256
                        /\ cres.payload[3 + 2 * i] = written.reg[ReqAddr + i] % 256

\* Coil 4 is off in the initial data; it is read back on after 0xFF00.
C8_Witness ==
    /\ AnsweredServed
    /\ creq = Pdu(ServedUnitId, fcReadCoils, <<0, 4, 0, 1>>)
    /\ 4 \in DOMAIN written.coil
    /\ written.coil[4] = 65280
    /\ cres.payload = <<1, 1>>

C8_WitnessRegister ==
    /\ AnsweredServed
    /\ creq = Pdu(ServedUnitId, fcReadHoldingRegisters, <<0, 3, 0, 1>>)
    /\ 3 \in DOMAIN written.reg
    /\ written.reg[3] = 258
    /\ cres.payload = <<2, 1, 2>>

\* C9: a request for a unit id that is not served is answered by an exception
\* PDU (function code | 0x80, one payload byte: illegal function); the frame
\* the server writes carries it, the client transport returns it as a PDU
\* with no transport error, and the handler's data is what it was before.
C9_ForeignUnitException ==
    (spc \in {"served", "done"} /\ creq.unitId # ServedUnitId) =>
        /\ coils = before.coils
        /\ holding = before.holding
        /\ spc = "served" =>
            s2c = assembleASCIIFrame(
                    Pdu(creq.unitId, creq.functionCode + 128, <<exIllegalFunction>>))
        /\ spc = "done" =>
            /\ cerr = ErrNone
            /\ cres.unitId = creq.unitId
            /\ cres.functionCode = creq.functionCode + 128
            /\ Len(cres.payload) = 1
            /\ cres.payload[1] = exIllegalFunction

\* Unit 7 writes coil 4: answered with 0x85 / illegal function.
C9_Witness ==
    /\ spc = "done"
    /\ creq = Pdu(7, fcWriteSingleCoil, <<0, 4, 255, 0>>)
    /\ cres = Pdu(7, 133, <<1>>)
    /\ cerr = ErrNone
    /\ coils = initialCoils

(***************************************************************************)
(* Claims about ExecuteRequest (checked under SpecExec).                   *)
(***************************************************************************)

\* link.Write of the current call has started.
WriteStarted == pc \in {"idlewait", "read", "returned"} \/ (pc = "done" /\ frame # <<>>)

\* C10: the write of a request frame never starts before lastActivity + t3.5,
\* lastActivity being the value the transport holds when the write starts
\* (the estimated end of the previous write after a timeout, else the time
\* the previous call's response or error was received).
C10_InterFrameSilence ==
    WriteStarted => writeAt >= laAtWrite + T35

\* A call made right after the previous one returned had to wait out t3.5.
C10_Witness ==
    /\ WriteStarted
    /\ laAtWrite = 0
    /\ writeAt = T35
    /\ wire = <<>>
    /\ pc = "read"

(***************************************************************************)
(* Claims about serialized ExecuteRequest calls (checked under SpecExec).  *)
(***************************************************************************)

\* The call has returned a PDU to its caller.
ReturnedPdu == pc = "done" /\ err = ErrNone /\ res # NoPdu

\* C11: the PDU a call of ExecuteRequest returns is the response the peer
\* produced for that call's own request (it carries that request's unit id
\* and function code, as every response of the peer does), also after
\* earlier calls timed out and were answered late.
C11_OwnResponse ==
    ReturnedPdu => res.unitId = req.unitId /\ res.functionCode = req.functionCode

(***************************************************************************)
(* Claims about repeated reads (checked under SpecReads).                  *)
(***************************************************************************)

IsReadRequest(rq) ==
    rq.functionCode \in {fcReadCoils, fcReadDiscreteInputs, fcReadHoldingRegisters,
                         fcReadInputRegisters}

\* C12: the responses to the same read request, sent again with no write
\* request in between, are byte-identical, and a read request leaves the
\* server's stored data as it was.
C12_ReadIdempotence ==
    /\ tracked.first = tracked.last
    /\ (spc \in {"served", "done"} /\ IsReadRequest(creq))
          => (coils = before.coils /\ holding = before.holding)

\* A followed read was answered a second time, after a write had changed
\* the data and another read had been served.
C12_Witness ==
    /\ tracked.n = 2
    /\ tracked.first # <<>>
    /\ spc = "done"
    /\ creq # tracked.req
    /\ IsReadRequest(creq)
    /\ coils # initialCoils

(***************************************************************************)
(* Claims about readASCIIFrame on byte streams (checked under SpecStream). *)
(***************************************************************************)

IsPrefix(a, b) == Len(a) <= Len(b) /\ SubSeq(b, 1, Len(a)) = a

\* readASCIIFrame has returned on a stream N \o F.
StreamRead == pc = "returned" /\ frame # <<>>

\* C13: readASCIIFrame fed noise N (no ':') followed by F (starting with
\* ':') returns the result it returns fed F alone; the bytes before the
\* first ':' are discarded: they are not in rxbuf and do not count against
\* the maximum frame length.
C13_NoiseSkipped ==
    StreamRead =>
        /\ res = readASCIIFrame(frame).res
        /\ err = readASCIIFrame(frame).err
        /\ IsPrefix(rxbuf, frame)
        /\ \A i \in 1 .. Len(skipped) : skipped[i] # Colon

\* Noise with a line feed in it was skipped before a frame of the maximum
\* length, which was returned as a PDU.
C13_Witness ==
    /\ StreamRead
    /\ Len(skipped) = MaxNoiseLen
    /\ \E i \in 1 .. Len(skipped) : skipped[i] = LF
    /\ Len(frame) = maxASCIIFrameLength
    /\ err = ErrNone
    /\ res # NoPdu

(***************************************************************************)
(* Claims about the frame length limit (checked under SpecFrame).          *)
(***************************************************************************)

\* The binary bytes a frame of the PDU p carries: unit id, function code,
\* payload, LRC.
BinaryBytes(p) == Len(p.payload) + 3

\* While it reads, readASCIIFrame holds at most maxASCIIFrameLength bytes,
\* and the byte that exceeds it makes it return the protocol error.
LengthCapped ==
    /\ pc = "read" => Len(rxbuf) <= maxASCIIFrameLength
    /\ Len(rxbuf) > maxASCIIFrameLength =>
          (pc = "returned" /\ err = ErrProtocolError /\ res = NoPdu)

\* C14 as stated: the length is capped at 513, and every well-formed frame
\* of up to 256 binary bytes is accepted.
C14_FrameLengthBound256 ==
    /\ LengthCapped
    /\ (RoundTripDone /\ BinaryBytes(peerPdu) <= 256) => err = ErrNone

\* C14 (amended): the length is capped at 513, exceeding it yields the
\* protocol error, and every well-formed frame of up to 255 binary bytes
\* (513 characters) is accepted.
C14_FrameLengthBound ==
    /\ LengthCapped
    /\ (RoundTripDone /\ BinaryBytes(peerPdu) <= 255) => err = ErrNone

\* A frame of exactly 513 characters, 255 binary bytes, was accepted.
C14_Witness ==
    /\ pc = "returned"
    /\ Len(rxbuf) = maxASCIIFrameLength
    /\ BinaryBytes(peerPdu) = 255
    /\ err = ErrNone

\* The 514th byte arrived and the read returned the protocol error.
C14_WitnessExceeded ==
    /\ pc = "returned"
    /\ Len(rxbuf) = maxASCIIFrameLength + 1
    /\ err = ErrProtocolError

(***************************************************************************)
(* Claims about the bookkeeping of ExecuteRequest (checked under SpecExec).*)
(***************************************************************************)

\* The call has returned.
ExecReturned == pc = "done" /\ req # NoPdu

\* C15 as stated: a call that ends with a response or with any failure
\* other than the timeout has set lastActivity to the time of return; one
\* that ends with the timeout has kept ts + bytes written * t1.
C15_LastActivityAtReturn ==
    ExecReturned =>
        IF err = ErrRequestTimedOut
        THEN lastActivity = ts + Len(frame) * T1
        ELSE lastActivity = now

\* C15 (amended): when readASCIIFrame of the call returns a response or any
\* failure other than the timeout, the call sets lastActivity to the time of
\* its return; when it returns the timeout, lastActivity keeps the value set
\* after the write, ts + bytes written * t1.  (A call that returns before it
\* reads, because the deadline could not be armed or the write failed, leaves
\* lastActivity as it was.)
C15_LastActivityAfterRead ==
    [][ /\ (pc = "returned" /\ pc' = "done") =>
              IF err = ErrRequestTimedOut
              THEN lastActivity' = lastActivity /\ lastActivity = ts + Len(frame) * T1
              ELSE lastActivity' = now'
        /\ (pc = "write" /\ pc' = "done") => lastActivity' = lastActivity
      ]_vars

\* A call ended with the timeout, well after the end of its write.
C15_Witness ==
    /\ ExecReturned
    /\ err = ErrRequestTimedOut
    /\ lastActivity = ts + Len(frame) * T1
    /\ now > lastActivity + T35

\* A call ended with a noise error and stamped the time of return.
C15_WitnessStamped ==
    /\ ExecReturned
    /\ err = ErrBadLRC
    /\ lastActivity = now

\* C16: after readASCIIFrame returned, ExecuteRequest waits 513 * t1 and
\* discards the bytes pending on the link if and only if the error is the
\* checksum, protocol or short-frame error; after a response, the timeout or
\* another link error it neither waits nor discards; in every case the call
\* then returns that result: the request is not written again.
C16_NoiseDiscard ==
    [][ /\ (pc = "returned" /\ pc' = "done") =>
              /\ IF err \in {ErrBadLRC, ErrProtocolError, ErrShortFrame}
                 THEN now' = now + 513 * T1 /\ wire' = <<>>
                 ELSE now' = now /\ wire' = wire
              /\ err' = err
              /\ res' = res
              /\ peerReq' = peerReq
        /\ pc = "returned" => pc' \in {"returned", "done"}
      ]_vars

\* A call returned the checksum error after the wait, and bytes that were
\* pending behind the bad frame are gone.
C16_Witness ==
    /\ ExecReturned
    /\ err = ErrBadLRC
    /\ now >= 513 * T1
    /\ wire = <<>>
    /\ peerReq = NoPdu
    /\ Len(rxbuf) > 0

\* A call returned the timeout and left a late response pending.
C16_WitnessKept ==
    /\ ExecReturned
    /\ err = ErrRequestTimedOut
    /\ wire # <<>>

\* The deadline of the running call is the instant of the call + timeout.
DeadlineArmed ==
    pc \in {"silence", "write", "idlewait", "read", "returned"} => deadline = 0 + Timeout

\* A call whose deadline could not be armed did no I/O.
NoIOUnarmed ==
    (ExecReturned /\ deadline # 0 + Timeout) => (frame = <<>> /\ rxbuf = <<>>)

\* C17: ExecuteRequest arms the deadline now + timeout before it reads or
\* writes (and does no I/O if arming fails), and when the deadline is
\* exceeded during its read or its write, it returns ErrRequestTimedOut: the
\* caller gets the timeout of the link as that error and in no other form.
C17_DeadlineHandling ==
    /\ DeadlineArmed
    /\ NoIOUnarmed
    /\ ExecReturned => err # ErrDeadlineExceeded
    /\ (ExecReturned /\ err = ErrRequestTimedOut) => now >= deadline

(***************************************************************************)
(* Claims about termination (checked under SpecLive).                      *)
(***************************************************************************)

\* An ExecuteRequest or ReadRequest call is in progress.
Running == pc \in {"silence", "write", "idlewait", "read", "returned"}

\* C18: on a link that honours its deadline every ExecuteRequest and every
\* ReadRequest returns, with a PDU or an error, whatever the peer sends
\* (noise without end, a frame without line feed, nothing); and a read in
\* progress on a link that gets closed returns with an error.
C18_Termination ==
    /\ Running ~> (pc = "done" /\ (res # NoPdu \/ err # ErrNone))
    /\ (pc = "read" /\ closed) ~> (pc = "done" /\ err # ErrNone)

\* A read that was fed noise until the deadline has returned the timeout.
C18_Witness ==
    /\ pc = "done"
    /\ err = ErrRequestTimedOut
    /\ Len(skipped) > 2
    /\ now >= deadline

\* A read of a frame without line feed was ended by closing the link.
C18_WitnessClosed ==
    /\ pc = "done"
    /\ closed
    /\ err = ErrLinkClosed
    /\ Len(rxbuf) > 2

(***************************************************************************)
(* Claims about handler errors (checked under SpecServer).                 *)
(***************************************************************************)

\* The size of the data area a function code accesses (0: the handler is
\* not called for it).
AreaSize(fc) ==
    IF fc \in {1, 5} THEN 8
    ELSE IF fc = 2 THEN 8
    ELSE IF fc \in {3, 6} THEN 137
    ELSE IF fc = 4 THEN 4
    ELSE 0

\* The exception code of the error the handler returns for rq: 1 (illegal
\* function) for a foreign unit id, 2 (illegal data address) for an access
\* past the end of the data, 0 when it returns none.
HandlerErrorCode(rq) ==
    LET qty == IF rq.functionCode \in {5, 6} THEN 1
               ELSE 256 * rq.payload[3] + rq.payload[4]
    IN  IF AreaSize(rq.functionCode) = 0 THEN 0
        ELSE IF rq.unitId # 9 THEN 1
        ELSE IF 256 * rq.payload[1] + rq.payload[2] + qty > AreaSize(rq.functionCode) THEN 2
        ELSE 0

\* C19: for a request the handler fails, the server writes exactly one
\* exception PDU (function code | 0x80, one byte: the mapped exception code),
\* which the client receives without transport error; the handler's data is
\* left unchanged; and the loop of the link does not end: the request after
\* an exception is answered as well.
C19_HandlerErrorOnWire ==
    LET code == HandlerErrorCode(creq)
        ex   == [unitId |-> creq.unitId, functionCode |-> creq.functionCode + 128,
                 payload |-> <<code>>]
    IN  /\ spc # "closed"
        /\ (spc \in {"served", "done"} /\ code # 0) =>
              (coils = before.coils /\ holding = before.holding)
        /\ (spc = "served" /\ code # 0) => s2c = assembleASCIIFrame(ex)
        /\ (spc = "done" /\ code # 0) => (cerr = ErrNone /\ cres = ex)
        /\ (spc = "done" /\ code = 0 /\ AreaSize(creq.functionCode) # 0) =>
              (cerr = ErrNone /\ cres.functionCode = creq.functionCode)
        /\ (spc = "done" /\ before.prevException) =>
              (cerr = ErrNone /\ cres.unitId = creq.unitId
               /\ cres.functionCode % 128 = creq.functionCode)

\* After a write past the end of the registers was answered with the
\* illegal-data-address exception, and the next request got its response.
C19_Witness ==
    /\ spc = "done"
    /\ before.prevException
    /\ HandlerErrorCode(creq) = 0
    /\ cres.functionCode = creq.functionCode
    /\ creq.functionCode = 3

\* An illegal-data-address exception was received for a write past the end.
C19_WitnessAddress ==
    /\ spc = "done"
    /\ creq.functionCode = 6
    /\ HandlerErrorCode(creq) = 2
    /\ cres.functionCode = 134
    /\ cres.payload = <<2>>

(***************************************************************************)
(* Claims about a repeated start character (checked under SpecStream).     *)
(***************************************************************************)

\* rxbuf holds a ':' after its first byte.
SecondColon == \E i \in 2 .. Len(rxbuf) : rxbuf[i] = Colon

\* C20: once readASCIIFrame has seen a ':', every later byte up to the line
\* feed, another ':' included, is accumulated into the same frame (rxbuf
\* followed by the bytes still pending is the stream from its first ':');
\* and a read in which a second ':' arrived before the line feed returns no
\* PDU but an error.
C20_NoRestart ==
    /\ (colon /\ frame # <<>>) => rxbuf \o wire = frame
    /\ (pc = "returned" /\ SecondColon) => (res = NoPdu /\ err # ErrNone)

\* A truncated frame directly followed by a complete valid frame was read
\* as one frame and rejected.
C20_Witness ==
    /\ pc = "returned"
    /\ wire = <<>>
    /\ err = ErrProtocolError
    /\ \E i \in 3 .. Len(rxbuf) :
          /\ rxbuf[i] = Colon
          /\ readASCIIFrame(SubSeq(rxbuf, i, Len(rxbuf))).err = ErrNone

====
